---------------------------- MODULE Spec2Model ----------------------------
(***************************************************************************)
(* The real-time voice conversation component of ThaiGuide-AI              *)
(* (components/VoiceInterface.tsx and its extended variant with the        *)
(* transcript aggregator): session lifecycle, owned audio resources,       *)
(* playback scheduling and transcript aggregation, as a state machine.     *)
(*                                                                         *)
(* Time is counted in tenths of a second (1.0 s = 10).  Texts are strings, *)
(* the empty string being the falsy value of the JavaScript tests.         *)
(***************************************************************************)
EXTENDS Integers, Sequences, FiniteSets, TLC

\* ------------------------------------------------------------- bounds
\* connect() invocations in one run of the component
MaxConnects == 2
\* server messages handled in one run under Spec
MaxMsgs == 2
\* server messages handled in one run under SpecPlayback
MaxFrames == 3
\* largest playback-clock value under SpecPlayback
MaxPlayClock == 20
\* server messages handled in one run under SpecTranscript
MaxDeltas == 3
\* connect() invocations in one run under SpecCall
MaxCalls == 1
\* server messages handled in one run under SpecCall
MaxCallMsgs == 2
\* handleCreateSticky calls awaiting their summary at one time
MaxSummaries == 1
\* notes stored before handleCreateSticky() is no longer invoked directly
MaxNotes == 1
\* capture blocks processed in one run under SpecCapture
MaxBlocks == 2
\* largest magnitude of a sample, in halves, under SpecCapture
MaxSample == 3
\* milliseconds that pass in one run under SpecCapture
MaxWait == 120

Calls == 1..MaxConnects

\* the null of a ref (useRef<...|null>(null)); resources are named by the
\* number of the connect() invocation that created them
NoRef == 0
\* no summary banner (useState<string | null>(null))
NoSummary == "null"
\* a transcription field that the server message does not carry
NoDelta == "<absent>"
\* Date.now() when the component is constructed: any value far above the
\* throttle intervals
Epoch == 1000
\* a Float32 sample of a capture block is counted in halves (2 is 1.0), the
\* volume in hundredths (100 is 1.0)
SampleUnit == 2
VolumeOne == 100
\* s * 0x8000, s * 0x7FFF, rms * 5, and the two throttle intervals
PcmNegScale == 32768
PcmPosScale == 32767
VolumeGain == 5
ThrottleExtended == 50
ThrottleBasic == 100

Max(a, b) == IF a >= b THEN a ELSE b
Min(a, b) == IF a <= b THEN a ELSE b

\* a server message: the optional fields of LiveServerMessage.serverContent
\* that onmessage reads.  audio.kind is "none" (no inlineData / empty data),
\* "bad64" (data that atob rejects), "pcm" (decodable, of duration dur) or
\* "undecodable" (decodeAudioData rejects).
NoAudio == [kind |-> "none", dur |-> 0]
Pcm(d) == [kind |-> "pcm", dur |-> d]
Message(o, i, tc, au, intr) ==
  [out |-> o, inp |-> i, turnComplete |-> tc, audio |-> au, interrupted |-> intr]
NoMsg == Message(NoDelta, NoDelta, FALSE, NoAudio, FALSE)

VARIABLES
  variant,              \* "basic" (VoiceInterface.tsx) or "extended" (part_000)
  apiKey,               \* process.env.API_KEY is configured
  mounted,              \* the component is mounted
  status, isConnected, volume,                       \* React state
  transcripts, currentInput, currentOutput, summaryMessage,
  audioContextRef, inputAudioContextRef, inputSourceRef, processorRef,
  streamRef, nextStartTimeRef, sessionRef,           \* refs
  transcriptHistoryRef, currentInputRef, currentOutputRef,
  calls,                \* connect() invocations so far
  pc,                   \* position of each connect() invocation
  audioCtx, inputCtx,   \* the contexts each invocation created
  inputStream,          \* the device stream each invocation obtained
  source, highpass, scriptProcessor,   \* the graph nodes its onopen created
  session,              \* the remote session each invocation requested
  currentTime,          \* audioCtx.currentTime of each playback context
  decoding,             \* onmessage handlers suspended at await decodeAudioData
  playLog,              \* what the scheduler did: frames started, interruptions
  arrived,              \* server messages handled so far
  recvInput, recvOutput,\* every transcription delta received since connect()
  summaryPending,       \* handleCreateSticky calls awaiting their summary
  stickies,             \* notes stored under 'thai_guide_stickies'
  stickyText,           \* the text of the note stored last
  releases,             \* track.stop() and ctx.close() calls on each resource
  teardown,             \* the release calls of the latest teardown, in order
  now,                  \* Date.now(), in milliseconds
  lastVolumeUpdate,     \* the throttle stamp of each onopen closure
  blocks,               \* capture blocks processed so far
  sessionPromise,       \* the promise ai.live.connect returned to each call
  outbox,               \* then-callbacks registered on it and not yet run
  sent,                 \* frames handed to session.sendRealtimeInput
  last                  \* the handler that ran last

uiVars == <<status, isConnected, volume>>
refVars == <<audioContextRef, inputAudioContextRef, inputSourceRef,
             processorRef, streamRef>>
resVars == <<audioCtx, inputCtx, inputStream, source, highpass,
             scriptProcessor>>
txVars == <<transcripts, currentInput, currentOutput, transcriptHistoryRef,
            currentInputRef, currentOutputRef>>
envVars == <<variant, apiKey>>
noteVars == <<summaryPending, stickies, stickyText>>
sendVars == <<now, lastVolumeUpdate, blocks, outbox, sent>>
captureVars == <<now, lastVolumeUpdate, blocks, sessionPromise, outbox, sent>>
vars == <<variant, apiKey, mounted, status, isConnected, volume, transcripts,
          currentInput, currentOutput, summaryMessage, audioContextRef,
          inputAudioContextRef, inputSourceRef, processorRef, streamRef,
          nextStartTimeRef, sessionRef, transcriptHistoryRef, currentInputRef,
          currentOutputRef, calls, pc, audioCtx, inputCtx, inputStream,
          source, highpass, scriptProcessor, session, currentTime, decoding,
          playLog, arrived, recvInput, recvOutput, summaryPending, stickies,
          stickyText,
          releases, teardown, now, lastVolumeUpdate, blocks, sessionPromise,
          outbox, sent, last>>

Did(op, s, m) == [op |-> op, sess |-> s, msg |-> m]

Init ==
  /\ variant \in {"basic", "extended"}
  /\ apiKey \in BOOLEAN
  /\ mounted = TRUE
  /\ status = "disconnected" /\ isConnected = FALSE /\ volume = 0
  /\ transcripts = <<>> /\ currentInput = "" /\ currentOutput = ""
  /\ summaryMessage = NoSummary
  /\ audioContextRef = NoRef /\ inputAudioContextRef = NoRef
  /\ inputSourceRef = NoRef /\ processorRef = NoRef /\ streamRef = NoRef
  /\ nextStartTimeRef = 0 /\ sessionRef = NoRef
  /\ transcriptHistoryRef = <<>>
  /\ currentInputRef = "" /\ currentOutputRef = ""
  /\ calls = 0
  /\ pc = [i \in Calls |-> "none"]
  /\ audioCtx = [i \in Calls |-> "none"]
  /\ inputCtx = [i \in Calls |-> "none"]
  /\ inputStream = [i \in Calls |-> "none"]
  /\ source = [i \in Calls |-> "none"]
  /\ highpass = [i \in Calls |-> "none"]
  /\ scriptProcessor = [i \in Calls |-> "none"]
  /\ session = [i \in Calls |-> "none"]
  /\ currentTime = [i \in Calls |-> 0]
  /\ decoding = {}
  /\ playLog = <<>>
  /\ arrived = 0
  /\ recvInput = "" /\ recvOutput = ""
  /\ summaryPending = 0 /\ stickies = 0 /\ stickyText = NoSummary
  /\ releases = [i \in Calls |-> [stop |-> 0, closeOut |-> 0, closeIn |-> 0]]
  /\ teardown = <<>>
  /\ now = Epoch
  /\ lastVolumeUpdate = [i \in Calls |-> 0]
  /\ blocks = 0
  /\ sessionPromise = [i \in Calls |-> "none"]
  /\ outbox = [i \in Calls |-> <<>>]
  /\ sent = <<>>
  /\ last = Did("init", NoRef, NoMsg)

\* ------------------------------------------------------- disconnect()
\* streamRef.current.getTracks().forEach(track => track.stop())
StopTracks(streams, ref) ==
  IF ref # NoRef THEN [streams EXCEPT ![ref] = "stopped"] ELSE streams

\* node.disconnect() of the node a ref holds
DisconnectNode(nodes, ref) ==
  IF ref # NoRef THEN [nodes EXCEPT ![ref] = "disconnected"] ELSE nodes

CloseContextUnguarded(ctxs, ref) == [i \in DOMAIN ctxs |-> "closed"]

\* ctx.close() of the context a ref holds
CloseContext(ctxs, ref) ==
  IF ref # NoRef THEN [ctxs EXCEPT ![ref] = "closed"] ELSE ctxs

\* one release call: what is called, on which handle, of which invocation
Call(call, on, ref) ==
  IF ref # NoRef THEN <<[call |-> call, on |-> on, res |-> ref]>> ELSE <<>>

ReleaseCallsContextsFirst ==
  Call("close", "audioContextRef", audioContextRef)
    \o Call("close", "inputAudioContextRef", inputAudioContextRef)
    \o Call("disconnect", "processorRef", processorRef)
    \o Call("disconnect", "inputSourceRef", inputSourceRef)
    \o Call("stop", "streamRef", streamRef)

\* the release calls disconnect() makes, in the order of its statements
ReleaseCalls ==
  Call("stop", "streamRef", streamRef)
    \o Call("disconnect", "processorRef", processorRef)
    \o Call("disconnect", "inputSourceRef", inputSourceRef)
    \o Call("close", "audioContextRef", audioContextRef)
    \o Call("close", "inputAudioContextRef", inputAudioContextRef)

\* the release calls of the extended unmount cleanup, in order
CleanupCalls ==
  Call("stop", "streamRef", streamRef)
    \o Call("close", "audioContextRef", audioContextRef)
    \o Call("close", "inputAudioContextRef", inputAudioContextRef)

\* one more release call of the given kind on the resource a ref holds
CountRelease(r, kind, ref) ==
  IF ref # NoRef THEN [r EXCEPT ![ref][kind] = @ + 1] ELSE r

\* disconnect() appending the pending texts to the history before it
\* empties them
disconnectFinalizes ==
  /\ inputStream' = StopTracks(inputStream, streamRef)
  /\ streamRef' = NoRef
  /\ scriptProcessor' = DisconnectNode(scriptProcessor, processorRef)
  /\ processorRef' = NoRef
  /\ source' = DisconnectNode(source, inputSourceRef)
  /\ inputSourceRef' = NoRef
  /\ audioCtx' = CloseContext(audioCtx, audioContextRef)
  /\ audioContextRef' = NoRef
  /\ inputCtx' = CloseContext(inputCtx, inputAudioContextRef)
  /\ inputAudioContextRef' = NoRef
  /\ releases' = CountRelease(
                    CountRelease(
                      CountRelease(releases, "stop", streamRef),
                      "closeOut", audioContextRef),
                    "closeIn", inputAudioContextRef)
  /\ teardown' = ReleaseCalls
  /\ isConnected' = FALSE
  /\ volume' = 0
  /\ status' = "disconnected"
  /\ IF variant = "extended"
       THEN /\ currentInput' = "" /\ currentOutput' = ""
            /\ currentInputRef' = "" /\ currentOutputRef' = ""
       ELSE UNCHANGED <<currentInput, currentOutput, currentInputRef,
                        currentOutputRef>>
  /\ transcriptHistoryRef' =
       transcriptHistoryRef
         \o (IF currentInputRef # ""
               THEN <<[role |-> "user", text |-> currentInputRef]>> ELSE <<>>)
         \o (IF currentOutputRef # ""
               THEN <<[role |-> "model", text |-> currentOutputRef]>>
               ELSE <<>>)
  /\ UNCHANGED <<highpass, transcripts>>

\* the body of disconnect(): every guarded release, then the state resets.
\* The high-pass filter node is held by no ref and is not touched.
disconnect ==
  /\ inputStream' = StopTracks(inputStream, streamRef)
  /\ streamRef' = NoRef
  /\ scriptProcessor' = DisconnectNode(scriptProcessor, processorRef)
  /\ processorRef' = NoRef
  /\ source' = DisconnectNode(source, inputSourceRef)
  /\ inputSourceRef' = NoRef
  /\ audioCtx' = CloseContext(audioCtx, audioContextRef)
  /\ audioContextRef' = NoRef
  /\ inputCtx' = CloseContext(inputCtx, inputAudioContextRef)
  /\ inputAudioContextRef' = NoRef
  /\ releases' = CountRelease(
                    CountRelease(
                      CountRelease(releases, "stop", streamRef),
                      "closeOut", audioContextRef),
                    "closeIn", inputAudioContextRef)
  /\ teardown' = ReleaseCalls
  /\ isConnected' = FALSE
  /\ volume' = 0
  /\ status' = "disconnected"
  /\ IF variant = "extended"
       THEN /\ currentInput' = "" /\ currentOutput' = ""
            /\ currentInputRef' = "" /\ currentOutputRef' = ""
       ELSE UNCHANGED <<currentInput, currentOutput, currentInputRef,
                        currentOutputRef>>
  /\ UNCHANGED <<highpass, transcripts, transcriptHistoryRef>>

\* ---------------------------------------------------------- connect()
\* connect() without its credential check
connectUnchecked ==
  LET i == calls + 1 IN
  /\ mounted /\ ~isConnected
  /\ calls < MaxConnects
  /\ calls' = i
  /\ IF variant = "extended"
       THEN /\ transcripts' = <<>>
            /\ transcriptHistoryRef' = <<>>
            /\ summaryMessage' = NoSummary
            /\ currentInputRef' = "" /\ currentOutputRef' = ""
            /\ recvInput' = "" /\ recvOutput' = ""
       ELSE UNCHANGED <<transcripts, transcriptHistoryRef, summaryMessage,
                        currentInputRef, currentOutputRef, recvInput,
                        recvOutput>>
  /\ status' = "connecting"
  /\ audioCtx' = [audioCtx EXCEPT ![i] = "running"]
  /\ audioContextRef' = i
  /\ inputCtx' = [inputCtx EXCEPT ![i] = "running"]
  /\ inputAudioContextRef' = i
  /\ pc' = [pc EXCEPT ![i] = "awaitMic"]
  /\ UNCHANGED <<noteVars, releases, teardown>>
  /\ UNCHANGED captureVars
  /\ last' = Did("connect", i, NoMsg)
  /\ UNCHANGED <<envVars, mounted, isConnected, volume, currentInput,
                 currentOutput, inputSourceRef, processorRef, streamRef,
                 nextStartTimeRef, sessionRef, inputStream, source, highpass,
                 scriptProcessor, session, currentTime, decoding, playLog,
                 arrived>>

\* connect() up to its first await.  The button that invokes it is
\* onClick={isConnected ? disconnect : connect}.
connect ==
  LET i == calls + 1 IN
  /\ mounted /\ ~isConnected
  /\ calls < MaxConnects
  /\ calls' = i
  /\ IF variant = "extended"
       THEN /\ transcripts' = <<>>
            /\ transcriptHistoryRef' = <<>>
            /\ summaryMessage' = NoSummary
            /\ currentInputRef' = "" /\ currentOutputRef' = ""
            /\ recvInput' = "" /\ recvOutput' = ""
       ELSE UNCHANGED <<transcripts, transcriptHistoryRef, summaryMessage,
                        currentInputRef, currentOutputRef, recvInput,
                        recvOutput>>
  /\ IF ~apiKey
       THEN \* throw new Error("API Key not found"): caught, setStatus('error')
            /\ status' = "error"
            /\ pc' = [pc EXCEPT ![i] = "failed"]
            /\ UNCHANGED <<audioCtx, audioContextRef, inputCtx,
                           inputAudioContextRef>>
       ELSE /\ status' = "connecting"
            /\ audioCtx' = [audioCtx EXCEPT ![i] = "running"]
            /\ audioContextRef' = i
            /\ inputCtx' = [inputCtx EXCEPT ![i] = "running"]
            /\ inputAudioContextRef' = i
            /\ pc' = [pc EXCEPT ![i] = "awaitMic"]
  /\ UNCHANGED <<noteVars, releases, teardown>>
  /\ UNCHANGED captureVars
  /\ last' = Did("connect", i, NoMsg)
  /\ UNCHANGED <<envVars, mounted, isConnected, volume, currentInput,
                 currentOutput, inputSourceRef, processorRef, streamRef,
                 nextStartTimeRef, sessionRef, inputStream, source, highpass,
                 scriptProcessor, session, currentTime, decoding, playLog,
                 arrived>>

\* getUserMedia resolves: the rest of connect() runs
micGranted(i) ==
  /\ pc[i] = "awaitMic"
  /\ inputStream' = [inputStream EXCEPT ![i] = "live"]
  /\ streamRef' = i
  /\ session' = [session EXCEPT ![i] = "opening"]
  /\ sessionRef' = i
  /\ pc' = [pc EXCEPT ![i] = "done"]
  /\ UNCHANGED <<noteVars, releases, teardown>>
  /\ sessionPromise' = [sessionPromise EXCEPT ![i] = "pending"]
  /\ UNCHANGED sendVars
  /\ last' = Did("micGranted", i, NoMsg)
  /\ UNCHANGED <<envVars, mounted, uiVars, txVars, summaryMessage,
                 audioContextRef, inputAudioContextRef, inputSourceRef,
                 processorRef, nextStartTimeRef, calls, audioCtx, inputCtx,
                 source, highpass, scriptProcessor, currentTime, decoding,
                 playLog, arrived, recvInput, recvOutput>>

\* getUserMedia rejects: catch (e) { setStatus('error') }
micDenied(i) ==
  /\ pc[i] = "awaitMic"
  /\ status' = "error"
  /\ pc' = [pc EXCEPT ![i] = "failed"]
  /\ UNCHANGED <<noteVars, releases, teardown>>
  /\ UNCHANGED captureVars
  /\ last' = Did("micDenied", i, NoMsg)
  /\ UNCHANGED <<envVars, mounted, isConnected, volume, txVars,
                 summaryMessage, refVars, nextStartTimeRef, sessionRef, calls,
                 resVars, session, currentTime, decoding, playLog, arrived,
                 recvInput, recvOutput>>

\* callbacks.onopen of the session invocation i requested
onopen(i) ==
  /\ session[i] = "opening"
  /\ session' = [session EXCEPT ![i] = "open"]
  /\ status' = "connected"
  /\ isConnected' = TRUE
  /\ nextStartTimeRef' = currentTime[i]
  /\ source' = [source EXCEPT ![i] = "connected"]
  /\ highpass' = [highpass EXCEPT
                    ![i] = IF variant = "extended" THEN "connected" ELSE @]
  /\ scriptProcessor' = [scriptProcessor EXCEPT ![i] = "connected"]
  /\ inputSourceRef' = i
  /\ processorRef' = i
  /\ UNCHANGED <<noteVars, releases, teardown>>
  /\ UNCHANGED captureVars
  /\ last' = Did("onopen", i, NoMsg)
  /\ UNCHANGED <<envVars, mounted, volume, txVars, summaryMessage,
                 audioContextRef, inputAudioContextRef, streamRef, sessionRef,
                 calls, pc, audioCtx, inputCtx, inputStream, currentTime,
                 decoding, playLog, arrived, recvInput, recvOutput>>

\* ------------------------------------------------ transcript aggregator
Agg ==
  [transcripts |-> transcripts, transcriptHistoryRef |-> transcriptHistoryRef,
   currentInput |-> currentInput, currentOutput |-> currentOutput,
   currentInputRef |-> currentInputRef, currentOutputRef |-> currentOutputRef]

SetAgg(a) ==
  /\ transcripts' = a.transcripts
  /\ transcriptHistoryRef' = a.transcriptHistoryRef
  /\ currentInput' = a.currentInput
  /\ currentOutput' = a.currentOutput
  /\ currentInputRef' = a.currentInputRef
  /\ currentOutputRef' = a.currentOutputRef

Item(r, t) == [role |-> r, text |-> t]

\* if (currentInputRef.current) { push user item; clear }
FlushUser(a) ==
  IF a.currentInputRef # ""
    THEN [a EXCEPT
            !.transcripts = Append(@, Item("user", a.currentInputRef)),
            !.transcriptHistoryRef = Append(@, Item("user", a.currentInputRef)),
            !.currentInputRef = "",
            !.currentInput = ""]
    ELSE a

FlushModelOverwrites(a) ==
  IF a.currentOutputRef # ""
    THEN [a EXCEPT
            !.transcripts = <<Item("model", a.currentOutputRef)>>,
            !.transcriptHistoryRef = <<Item("model", a.currentOutputRef)>>,
            !.currentOutputRef = "",
            !.currentOutput = ""]
    ELSE a

FlushModelUnguarded(a) ==
  [a EXCEPT
     !.transcripts = Append(@, Item("model", a.currentOutputRef)),
     !.transcriptHistoryRef = Append(@, Item("model", a.currentOutputRef)),
     !.currentOutputRef = "",
     !.currentOutput = ""]

\* if (currentOutputRef.current) { push model item; clear }
FlushModel(a) ==
  IF a.currentOutputRef # ""
    THEN [a EXCEPT
            !.transcripts = Append(@, Item("model", a.currentOutputRef)),
            !.transcriptHistoryRef = Append(@, Item("model", a.currentOutputRef)),
            !.currentOutputRef = "",
            !.currentOutput = ""]
    ELSE a

OutputTranscriptionNoFlush(a, text) ==
  [a EXCEPT !.currentOutputRef = @ \o text,
            !.currentOutput = a.currentOutputRef \o text]

\* the outputTranscription branch
OutputTranscription(a, text) ==
  LET b == FlushUser(a) IN
    [b EXCEPT !.currentOutputRef = @ \o text,
              !.currentOutput = b.currentOutputRef \o text]

\* the inputTranscription branch
InputTranscription(a, text) ==
  [a EXCEPT !.currentInputRef = @ \o text,
            !.currentInput = a.currentInputRef \o text]

\* if (outputTranscription) {...} else if (inputTranscription) {...}
Transcription(a, m) ==
  IF m.out # NoDelta THEN OutputTranscription(a, m.out)
  ELSE IF m.inp # NoDelta THEN InputTranscription(a, m.inp)
  ELSE a

TurnCompleteModelFirst(a, m) ==
  IF m.turnComplete THEN FlushUser(FlushModel(a)) ELSE a

\* if (serverContent?.turnComplete) { user flush; model flush }
TurnComplete(a, m) ==
  IF m.turnComplete THEN FlushModel(FlushUser(a)) ELSE a

InterruptedFlushesBoth(a) == FlushModel(FlushUser(a))

\* the transcript part of if (serverContent?.interrupted): the model flush
Interrupted(a) == FlushModel(a)

\* ---------------------------------------------------- playback scheduler
StartTimeIgnoresClock(cursor, clock) == cursor

\* const startTime = Math.max(nextStartTimeRef.current, audioCtx.currentTime)
StartTime(cursor, clock) == Max(cursor, clock)

\* nextStartTimeRef.current = startTime + audioBuffer.duration
CursorAfter(startTime, duration) == startTime + duration

InterruptedCursorKept(cursor, clock) == cursor

InterruptedCursorRewinds(cursor, clock) == 0

\* if (serverContent?.interrupted) nextStartTimeRef.current = audioCtx.currentTime
InterruptedCursor(cursor, clock) == clock

\* the log entry of an interruption handled for message id of session i
\* when the cursor was c
InterruptedEntry(id, i, c) ==
  [id |-> id, sess |-> i, kind |-> "interrupted", clock |-> currentTime[i],
   start |-> currentTime[i], dur |-> 0,
   cursor |-> InterruptedCursor(c, currentTime[i])]

\* ------------------------------------------------------------ onmessage
\* the transcript part of onmessage, which runs before the audio part
BeforeAudio(a, m) == TurnComplete(Transcription(a, m), m)

\* callbacks.onmessage of session i for server message m, up to its await
\* (or to its end when the message carries no audio to decode)
onmessage(i, m) ==
  /\ session[i] = "open"
  /\ arrived' = arrived + 1
  /\ IF variant = "extended"
       THEN /\ recvInput' = IF m.inp # NoDelta THEN recvInput \o m.inp
                            ELSE recvInput
            /\ recvOutput' = IF m.out # NoDelta THEN recvOutput \o m.out
                             ELSE recvOutput
       ELSE UNCHANGED <<recvInput, recvOutput>>
  /\ CASE m.audio.kind = "none" ->
            \* no await: the interrupted part runs in the same step
            /\ nextStartTimeRef' =
                 IF m.interrupted
                   THEN InterruptedCursor(nextStartTimeRef, currentTime[i])
                   ELSE nextStartTimeRef
            /\ IF variant = "extended"
                 THEN SetAgg(IF m.interrupted
                               THEN Interrupted(BeforeAudio(Agg, m))
                               ELSE BeforeAudio(Agg, m))
                 ELSE UNCHANGED txVars
            /\ playLog' = IF m.interrupted
                            THEN Append(playLog,
                                        InterruptedEntry(arrived + 1, i,
                                                         nextStartTimeRef))
                            ELSE playLog
            /\ UNCHANGED decoding
       [] m.audio.kind = "bad64" ->
            \* atob throws: the handler's promise rejects, the rest is skipped
            /\ IF variant = "extended"
                 THEN SetAgg(BeforeAudio(Agg, m))
                 ELSE UNCHANGED txVars
            /\ UNCHANGED <<nextStartTimeRef, decoding, playLog>>
       [] OTHER ->
            \* await decodeAudioData(data, audioCtx, 24000)
            /\ IF variant = "extended"
                 THEN SetAgg(BeforeAudio(Agg, m))
                 ELSE UNCHANGED txVars
            /\ decoding' = decoding \cup
                 {[id |-> arrived + 1, sess |-> i, dur |-> m.audio.dur,
                   ok |-> (m.audio.kind = "pcm"),
                   interrupted |-> m.interrupted]}
            /\ UNCHANGED <<nextStartTimeRef, playLog>>
  /\ UNCHANGED <<noteVars, releases, teardown>>
  /\ UNCHANGED captureVars
  /\ last' = Did("onmessage", i, m)
  /\ UNCHANGED <<envVars, mounted, uiVars, summaryMessage, refVars,
                 sessionRef, calls, pc, resVars, session, currentTime>>

\* await decodeAudioData(...): a suspension point of variable latency, so
\* any of the pending decodes may be the next to settle
DecodeSettles(p) == p \in decoding

\* decodeAudioData settles for the suspended handler p: the handler resumes.
\* A rejected decode throws out of the handler; otherwise the frame is
\* scheduled and then the interrupted part runs.
decodeDone(p) ==
  /\ DecodeSettles(p)
  /\ decoding' = decoding \ {p}
  /\ IF p.ok
       THEN LET startTime == StartTime(nextStartTimeRef, currentTime[p.sess])
                after == CursorAfter(startTime, p.dur)
                frame == [id |-> p.id, sess |-> p.sess, kind |-> "frame",
                          clock |-> currentTime[p.sess], start |-> startTime,
                          dur |-> p.dur, cursor |-> after]
            IN /\ playLog' = IF p.interrupted
                                THEN playLog \o
                                     <<frame,
                                       InterruptedEntry(p.id, p.sess, after)>>
                                ELSE Append(playLog, frame)
               /\ nextStartTimeRef' =
                    IF p.interrupted
                      THEN InterruptedCursor(after, currentTime[p.sess])
                      ELSE after
               /\ IF variant = "extended" /\ p.interrupted
                    THEN SetAgg(Interrupted(Agg))
                    ELSE UNCHANGED txVars
       ELSE UNCHANGED <<playLog, nextStartTimeRef, txVars>>
  /\ UNCHANGED <<noteVars, releases, teardown>>
  /\ UNCHANGED captureVars
  /\ last' = Did(IF p.ok THEN "scheduled" ELSE "decodeFailed", p.sess,
                 Message(NoDelta, NoDelta, FALSE,
                         [kind |-> IF p.ok THEN "pcm" ELSE "undecodable",
                          dur |-> p.dur],
                         p.interrupted))
  /\ UNCHANGED <<envVars, mounted, uiVars, summaryMessage, refVars,
                 sessionRef, calls, pc, resVars, session, currentTime,
                 arrived, recvInput, recvOutput>>

\* ------------------------------------------------- close, error, teardown
\* callbacks.onclose: disconnect()
onclose(i) ==
  /\ session[i] \in {"opening", "failed", "open"}
  /\ session' = [session EXCEPT ![i] = "closed"]
  /\ disconnect
  /\ UNCHANGED noteVars
  /\ UNCHANGED captureVars
  /\ last' = Did("onclose", i, NoMsg)
  /\ UNCHANGED <<envVars, mounted, summaryMessage, nextStartTimeRef,
                 sessionRef, calls, pc, currentTime, decoding, playLog,
                 arrived, recvInput, recvOutput>>

\* callbacks.onerror: setStatus('error'); disconnect() -- the status that
\* disconnect() sets is the one that remains.  A session that has failed
\* neither opens nor delivers messages any more; it can only close.
onerror(i) ==
  /\ session[i] \in {"opening", "open"}
  /\ session' = [session EXCEPT ![i] = "failed"]
  /\ disconnect
  /\ UNCHANGED noteVars
  /\ UNCHANGED captureVars
  /\ last' = Did("onerror", i, NoMsg)
  /\ UNCHANGED <<envVars, mounted, summaryMessage, nextStartTimeRef,
                 sessionRef, calls, pc, currentTime, decoding, playLog,
                 arrived, recvInput, recvOutput>>

\* the End Call button: onClick={isConnected ? disconnect : connect}
userDisconnect ==
  /\ mounted /\ isConnected
  /\ disconnect
  /\ UNCHANGED noteVars
  /\ UNCHANGED captureVars
  /\ last' = Did("disconnect", NoRef, NoMsg)
  /\ UNCHANGED <<envVars, mounted, summaryMessage, nextStartTimeRef,
                 sessionRef, calls, pc, session, currentTime, decoding,
                 playLog, arrived, recvInput, recvOutput>>

\* the unmount cleanup effect: disconnect() in the basic variant; in the
\* extended variant the tracks are stopped and the two contexts closed, and
\* nothing else is done
unmount ==
  /\ mounted
  /\ mounted' = FALSE
  /\ IF variant = "basic"
       THEN disconnect
       ELSE /\ inputStream' = StopTracks(inputStream, streamRef)
            /\ audioCtx' = CloseContext(audioCtx, audioContextRef)
            /\ inputCtx' = CloseContext(inputCtx, inputAudioContextRef)
            /\ releases' = CountRelease(
                              CountRelease(
                                CountRelease(releases, "stop", streamRef),
                                "closeOut", audioContextRef),
                              "closeIn", inputAudioContextRef)
            /\ teardown' = CleanupCalls
            /\ UNCHANGED <<uiVars, txVars, refVars, source, highpass,
                           scriptProcessor>>
  /\ UNCHANGED noteVars
  /\ UNCHANGED captureVars
  /\ last' = Did("unmount", NoRef, NoMsg)
  /\ UNCHANGED <<envVars, summaryMessage, nextStartTimeRef, sessionRef, calls,
                 pc, session, currentTime, decoding, playLog, arrived,
                 recvInput, recvOutput>>

\* the playback clocks advance by d while their context runs
tick(d, max) ==
  /\ \E i \in Calls : audioCtx[i] = "running" /\ currentTime[i] + d <= max
  /\ currentTime' = [i \in Calls |->
                       IF audioCtx[i] = "running" /\ currentTime[i] + d <= max
                         THEN currentTime[i] + d ELSE currentTime[i]]
  /\ UNCHANGED <<noteVars, releases, teardown>>
  /\ UNCHANGED captureVars
  /\ last' = Did("tick", NoRef, NoMsg)
  /\ UNCHANGED <<envVars, mounted, uiVars, txVars, summaryMessage, refVars,
                 nextStartTimeRef, sessionRef, calls, pc, resVars, session,
                 decoding, playLog, arrived, recvInput, recvOutput>>

\* ------------------------------------------------------ the plan note
\* handleCreateSticky() without its test of the history
handleCreateStickyUnguarded ==
  /\ variant = "extended" /\ mounted
  /\ summaryPending < MaxSummaries
  /\ status' = "summarizing"
  /\ summaryPending' = summaryPending + 1
  /\ UNCHANGED captureVars
  /\ last' = Did("handleCreateSticky", NoRef, NoMsg)
  /\ UNCHANGED <<envVars, mounted, isConnected, volume, txVars,
                 summaryMessage, refVars, nextStartTimeRef, sessionRef, calls,
                 pc, resVars, session, currentTime, decoding, playLog,
                 arrived, recvInput, recvOutput, stickies, stickyText, releases,
                 teardown>>

\* handleCreateSticky() up to its await: nothing happens when the finalized
\* history is empty, otherwise the summary is requested
handleCreateSticky ==
  /\ variant = "extended" /\ mounted
  /\ summaryPending < MaxSummaries
  /\ IF Len(transcriptHistoryRef) = 0
       THEN UNCHANGED <<status, summaryPending>>
       ELSE /\ status' = "summarizing"
            /\ summaryPending' = summaryPending + 1
  /\ UNCHANGED captureVars
  /\ last' = Did("handleCreateSticky", NoRef, NoMsg)
  /\ UNCHANGED <<envVars, mounted, isConnected, volume, txVars,
                 summaryMessage, refVars, nextStartTimeRef, sessionRef, calls,
                 pc, resVars, session, currentTime, decoding, playLog,
                 arrived, recvInput, recvOutput, stickies, stickyText, releases,
                 teardown>>

\* the Create Plan Note button is rendered when
\* !isConnected && transcripts.length > 0 && !summaryMessage and is disabled
\* while status === 'summarizing'
NoteButtonEnabled ==
  /\ ~isConnected /\ Len(transcripts) > 0 /\ summaryMessage = NoSummary
  /\ status # "summarizing"

\* a click on Create Plan Note
clickCreateNote == NoteButtonEnabled /\ handleCreateSticky

\* summarizeConversation() has resolved: with the summary, or, when the
\* remote call failed, with the text its catch returns. The note is stored
\* and announced, or storing it throws and the catch reverts the status.
summaryDone(summarized, stored) ==
  /\ summaryPending > 0
  /\ summaryPending' = summaryPending - 1
  /\ status' = "disconnected"
  /\ IF stored
       THEN /\ stickies' = stickies + 1
            /\ stickyText' = IF summarized THEN "summary"
                             ELSE "Call summary unavailable."
            /\ summaryMessage' = "Note added to Plan!"
       ELSE UNCHANGED <<stickies, stickyText, summaryMessage>>
  /\ UNCHANGED captureVars
  /\ last' = Did(IF stored THEN "summaryStored" ELSE "summaryFailed", NoRef,
                 NoMsg)
  /\ UNCHANGED <<envVars, mounted, isConnected, volume, txVars, refVars,
                 nextStartTimeRef, sessionRef, calls, pc, resVars, session,
                 currentTime, decoding, playLog, arrived, recvInput,
                 recvOutput, releases, teardown>>

\* ------------------------------------------------- the capture pipeline
\* Math.max(-1, Math.min(1, inputData[i]))
Clamp(n) == Max(-SampleUnit, Min(SampleUnit, n))

\* the integer part of n / d, as a typed-array store takes it (d > 0)
Trunc(n, d) == IF n >= 0 THEN n \div d ELSE -((-n) \div d)

\* the store into an Int16Array element: modulo 2^16 into [-2^15, 2^15)
ToInt16(x) == ((x + 32768) % 65536) - 32768

Pcm16Symmetric(n) ==
  ToInt16(Trunc(Clamp(n) * PcmPosScale, SampleUnit))

\* pcm16[i] = s < 0 ? s * 0x8000 : s * 0x7FFF, for the sample n
Pcm16(n) ==
  LET s == Clamp(n) IN
    ToInt16(Trunc(IF s < 0 THEN s * PcmNegScale ELSE s * PcmPosScale,
                  SampleUnit))

RECURSIVE SumSquares(_, _)
\* for (let i = 0; i < inputData.length; i += 10) sum += inputData[i] ** 2,
\* from the (1-based) position i on
SumSquares(block, i) ==
  IF i > Len(block) THEN 0
  ELSE block[i] * block[i] + SumSquares(block, i + 10)

RECURSIVE ISqrtIn(_, _, _)
\* the integer part of the square root of n, known to lie in lo..hi
ISqrtIn(n, lo, hi) ==
  IF lo >= hi THEN lo
  ELSE LET mid == (lo + hi + 1) \div 2 IN
         IF mid * mid <= n THEN ISqrtIn(n, mid, hi) ELSE ISqrtIn(n, lo, mid - 1)

\* rms * 5 with rms = Math.sqrt(sum / (inputData.length / 10)), in hundredths
Loudness(block) ==
  LET n == (VolumeOne * VolumeOne * VolumeGain * VolumeGain * 10
              * SumSquares(block, 1))
           \div (SampleUnit * SampleUnit * Len(block))
  IN ISqrtIn(n, 0, 10000)

VolumeUnclamped(block) == Loudness(block)

\* Math.min(1, rms * 5)
Volume(block) == Min(VolumeOne, Loudness(block))

\* the interval of if (now - lastVolumeUpdate > ...)
Throttle == IF variant = "extended" THEN ThrottleExtended ELSE ThrottleBasic

\* onaudioprocess with the send placed inside the throttled branch
onaudioprocessThrottlesSend(i, block) ==
  /\ scriptProcessor[i] = "connected" /\ inputCtx[i] = "running"
  /\ blocks' = blocks + 1
  /\ IF now - lastVolumeUpdate[i] > Throttle
       THEN /\ volume' = Volume(block)
            /\ lastVolumeUpdate' = [lastVolumeUpdate EXCEPT ![i] = now]
       ELSE UNCHANGED <<volume, lastVolumeUpdate>>
  /\ outbox' = [outbox EXCEPT
                  ![i] = IF now - lastVolumeUpdate[i] <= Throttle THEN @
                         ELSE Append(@, [id |-> blocks + 1, sess |-> i,
                                    early |-> sessionPromise[i] = "pending",
                                    block |-> block,
                                    pcm16 |-> [k \in DOMAIN block |->
                                                 Pcm16(block[k])]])]
  /\ last' = Did("onaudioprocess", i, NoMsg)
  /\ UNCHANGED <<envVars, mounted, status, isConnected, txVars,
                 summaryMessage, refVars, nextStartTimeRef, sessionRef, calls,
                 pc, resVars, session, currentTime, decoding, playLog,
                 arrived, recvInput, recvOutput, noteVars, releases, teardown, now,
                 sessionPromise, sent>>

\* scriptProcessor.onaudioprocess of session i for one capture block: the
\* throttled volume update, the PCM16 conversion, and the send registered on
\* the session promise.  The frame is recorded with its capture number, the
\* block it was made from and whether the promise was still pending.
onaudioprocess(i, block) ==
  /\ scriptProcessor[i] = "connected" /\ inputCtx[i] = "running"
  /\ blocks' = blocks + 1
  /\ IF now - lastVolumeUpdate[i] > Throttle
       THEN /\ volume' = Volume(block)
            /\ lastVolumeUpdate' = [lastVolumeUpdate EXCEPT ![i] = now]
       ELSE UNCHANGED <<volume, lastVolumeUpdate>>
  /\ outbox' = [outbox EXCEPT
                  ![i] = Append(@, [id |-> blocks + 1, sess |-> i,
                                    early |-> sessionPromise[i] = "pending",
                                    block |-> block,
                                    pcm16 |-> [k \in DOMAIN block |->
                                                 Pcm16(block[k])]])]
  /\ last' = Did("onaudioprocess", i, NoMsg)
  /\ UNCHANGED <<envVars, mounted, status, isConnected, txVars,
                 summaryMessage, refVars, nextStartTimeRef, sessionRef, calls,
                 pc, resVars, session, currentTime, decoding, playLog,
                 arrived, recvInput, recvOutput, noteVars, releases, teardown, now,
                 sessionPromise, sent>>

\* the promise of ai.live.connect resolves with the session, after the open
sessionResolves(i) ==
  /\ sessionPromise[i] = "pending"
  /\ session[i] = "open"
  /\ sessionPromise' = [sessionPromise EXCEPT ![i] = "resolved"]
  /\ last' = Did("sessionResolves", i, NoMsg)
  /\ UNCHANGED <<envVars, mounted, uiVars, txVars, summaryMessage, refVars,
                 nextStartTimeRef, sessionRef, calls, pc, resVars, session,
                 currentTime, decoding, playLog, arrived, recvInput,
                 recvOutput, noteVars, releases, teardown, sendVars>>

sendRealtimeInputNewestFirst(i, ok) ==
  /\ sessionPromise[i] = "resolved"
  /\ outbox[i] # <<>>
  /\ sent' = Append(sent, [frame |-> outbox[i][Len(outbox[i])], ok |-> ok])
  /\ outbox' = [outbox EXCEPT ![i] = SubSeq(@, 1, Len(@) - 1)]
  /\ last' = Did(IF ok THEN "sent" ELSE "sendFailed", i, NoMsg)
  /\ UNCHANGED <<envVars, mounted, uiVars, txVars, summaryMessage, refVars,
                 nextStartTimeRef, sessionRef, calls, pc, resVars, session,
                 currentTime, decoding, playLog, arrived, recvInput,
                 recvOutput, noteVars, releases, teardown, now, lastVolumeUpdate,
                 blocks, sessionPromise>>

sendRealtimeInputRetries(i, ok) ==
  /\ sessionPromise[i] = "resolved"
  /\ outbox[i] # <<>>
  /\ sent' = Append(sent, [frame |-> Head(outbox[i]), ok |-> ok])
  /\ outbox' = [outbox EXCEPT ![i] = IF ok THEN Tail(@) ELSE @]
  /\ last' = Did(IF ok THEN "sent" ELSE "sendFailed", i, NoMsg)
  /\ UNCHANGED <<envVars, mounted, uiVars, txVars, summaryMessage, refVars,
                 nextStartTimeRef, sessionRef, calls, pc, resVars, session,
                 currentTime, decoding, playLog, arrived, recvInput,
                 recvOutput, noteVars, releases, teardown, now, lastVolumeUpdate,
                 blocks, sessionPromise>>

\* the oldest callback registered with sessionPromise.then runs (promise
\* reactions run in the order of their registration): the frame is handed
\* to session.sendRealtimeInput, which returns or throws; a throw rejects
\* the promise that then() returned, which nothing observes
sendRealtimeInput(i, ok) ==
  /\ sessionPromise[i] = "resolved"
  /\ outbox[i] # <<>>
  /\ sent' = Append(sent, [frame |-> Head(outbox[i]), ok |-> ok])
  /\ outbox' = [outbox EXCEPT ![i] = Tail(@)]
  /\ last' = Did(IF ok THEN "sent" ELSE "sendFailed", i, NoMsg)
  /\ UNCHANGED <<envVars, mounted, uiVars, txVars, summaryMessage, refVars,
                 nextStartTimeRef, sessionRef, calls, pc, resVars, session,
                 currentTime, decoding, playLog, arrived, recvInput,
                 recvOutput, noteVars, releases, teardown, now, lastVolumeUpdate,
                 blocks, sessionPromise>>

\* d milliseconds pass
elapse(d, max) ==
  /\ now + d <= max
  /\ now' = now + d
  /\ last' = Did("elapse", NoRef, NoMsg)
  /\ UNCHANGED <<envVars, mounted, uiVars, txVars, summaryMessage, refVars,
                 nextStartTimeRef, sessionRef, calls, pc, resVars, session,
                 currentTime, decoding, playLog, arrived, recvInput,
                 recvOutput, noteVars, releases, teardown, lastVolumeUpdate, blocks,
                 sessionPromise, outbox, sent>>

\* ------------------------------------------------------- specifications
\* the server messages under Spec: a finished model turn with its audio
\* frame, and a user delta that interrupts
LifeMsgs ==
  { Message("Sa", NoDelta, TRUE, Pcm(2), FALSE),
    Message(NoDelta, "Bang", FALSE, NoAudio, TRUE) }

Next ==
  \/ connect
  \/ \E i \in Calls : micGranted(i)
  \/ \E i \in Calls : micDenied(i)
  \/ \E i \in Calls : onopen(i)
  \/ \E i \in Calls, m \in LifeMsgs : arrived < MaxMsgs /\ onmessage(i, m)
  \/ \E p \in decoding : decodeDone(p)
  \/ \E i \in Calls : onclose(i)
  \/ \E i \in Calls : onerror(i)
  \/ userDisconnect
  \/ unmount
  \/ clickCreateNote
  \/ \E summarized, stored \in BOOLEAN : summaryDone(summarized, stored)

Spec == Init /\ [][Next]_vars

\* One session, its audio: the user connects once, the microphone is granted
\* and the session opens; the server then sends audio frames and
\* interruptions while the playback clock advances.
Durations == {2, 3, 5, 10, 30}
ClockSteps == {20}
PlayMsgs ==
  { Message(NoDelta, NoDelta, FALSE, Pcm(d), FALSE) : d \in Durations }
  \cup { Message(NoDelta, NoDelta, FALSE, Pcm(2), TRUE),
         Message(NoDelta, NoDelta, FALSE, NoAudio, TRUE) }
  \cup { Message(NoDelta, NoDelta, FALSE, [kind |-> k, dur |-> 0], intr) :
           k \in {"bad64", "undecodable"}, intr \in BOOLEAN }

NextPlayback ==
  \/ calls = 0 /\ connect
  \/ micGranted(1)
  \/ onopen(1)
  \/ \E m \in PlayMsgs : arrived < MaxFrames /\ onmessage(1, m)
  \/ \E p \in decoding : decodeDone(p)
  \/ \E d \in ClockSteps : tick(d, MaxPlayClock)

SpecPlayback == Init /\ [][NextPlayback]_vars

\* One session, its transcript: the server sends transcription deltas,
\* turn-complete signals and interruptions, with or without an audio frame.
TransDeltas ==
  { <<NoDelta, NoDelta>>, <<"", NoDelta>>, <<"Sa", NoDelta>>,
    <<NoDelta, "Bang">>, <<NoDelta, "kok">>, <<"Sa", "Bang">> }
TransMsgs ==
  { Message(d[1], d[2], tc, NoAudio, intr) :
      d \in TransDeltas, tc \in BOOLEAN, intr \in BOOLEAN }
  \cup { Message(d[1], d[2], tc, Pcm(2), TRUE) :
           d \in TransDeltas, tc \in BOOLEAN }

NextTranscript ==
  \/ calls = 0 /\ connect
  \/ micGranted(1)
  \/ onopen(1)
  \/ \E m \in TransMsgs : arrived < MaxDeltas /\ onmessage(1, m)
  \/ \E p \in decoding : decodeDone(p)

SpecTranscript == Init /\ [][NextTranscript]_vars

\* One call that ends while a turn is still pending: deltas without a
\* turn-complete signal, End Call, remote close and error, and the plan note
\* asked for afterwards.
HangupMsgs ==
  { Message(NoDelta, "Bang", FALSE, NoAudio, FALSE),
    Message("Sa", NoDelta, FALSE, NoAudio, FALSE),
    Message(NoDelta, NoDelta, TRUE, NoAudio, FALSE) }

NextHangup ==
  \/ calls = 0 /\ connect
  \/ micGranted(1)
  \/ onopen(1)
  \/ \E m \in HangupMsgs : arrived < MaxCallMsgs /\ onmessage(1, m)
  \/ userDisconnect
  \/ onclose(1)
  \/ onerror(1)
  \/ clickCreateNote
  \/ \E summarized, stored \in BOOLEAN : summaryDone(summarized, stored)

SpecHangup == Init /\ [][NextHangup]_vars

\* The life of a call: connect, the microphone granted or denied, the
\* session opened, its transcript messages (no audio payload), End Call,
\* remote close and error, unmount, and the plan note asked for after the
\* call.
CallMsgs ==
  { Message("Sa", NoDelta, TRUE, NoAudio, FALSE),
    Message(NoDelta, "Bang", TRUE, NoAudio, TRUE) }

NextCall ==
  \/ calls < MaxCalls /\ connect
  \/ \E i \in Calls : micGranted(i)
  \/ \E i \in Calls : micDenied(i)
  \/ \E i \in Calls : onopen(i)
  \/ \E i \in Calls, m \in CallMsgs : arrived < MaxCallMsgs /\ onmessage(i, m)
  \/ \E i \in Calls : onclose(i)
  \/ \E i \in Calls : onerror(i)
  \/ userDisconnect
  \/ unmount
  \/ clickCreateNote
  \/ \E summarized, stored \in BOOLEAN : summaryDone(summarized, stored)

SpecCall == Init /\ [][NextCall]_vars

\* One call and its plan note, with handleCreateSticky() also invoked
\* directly, whatever the page shows: the button is not rendered while the
\* transcript is empty.
NextNote ==
  \/ calls = 0 /\ connect
  \/ micGranted(1)
  \/ onopen(1)
  \/ \E m \in CallMsgs : arrived < MaxCallMsgs /\ onmessage(1, m)
  \/ onclose(1)
  \/ userDisconnect
  \/ clickCreateNote
  \/ stickies < MaxNotes /\ handleCreateSticky
  \/ \E summarized, stored \in BOOLEAN : summaryDone(summarized, stored)

SpecNote == Init /\ [][NextNote]_vars

\* One session, its microphone: capture blocks of every loudness are
\* processed while time passes, and the user ends the call.
CaptureBlocks ==
  { <<n>> : n \in (-MaxSample)..MaxSample } \cup { <<1, -MaxSample>> }
Waits == {40, 60}

NextBlocks ==
  \/ calls = 0 /\ connect
  \/ micGranted(1)
  \/ onopen(1)
  \/ \E block \in CaptureBlocks : blocks < MaxBlocks /\ onaudioprocess(1, block)
  \/ \E d \in Waits : elapse(d, Epoch + MaxWait)
  \/ userDisconnect

SpecBlocks == Init /\ [][NextBlocks]_vars

\* One session, its outbound frames: blocks are captured, the session
\* handle resolves, frames are handed to the session, which takes them or
\* fails, and the user ends the call.
SendBlocks == { <<0>>, <<1, -MaxSample>> }

NextCapture ==
  \/ calls = 0 /\ connect
  \/ micGranted(1)
  \/ onopen(1)
  \/ \E block \in SendBlocks : blocks < MaxBlocks /\ onaudioprocess(1, block)
  \/ sessionResolves(1)
  \/ \E ok \in BOOLEAN : sendRealtimeInput(1, ok)
  \/ userDisconnect

SpecCapture == Init /\ [][NextCapture]_vars

\* ================================================================ claims
Callbacks ==
  {"onopen", "onmessage", "scheduled", "decodeFailed", "onclose", "onerror"}

\* no device track is live, no context runs, no graph node is connected
NoResourcesHeld ==
  \A i \in Calls :
    /\ inputStream[i] # "live"
    /\ audioCtx[i] # "running" /\ inputCtx[i] # "running"
    /\ source[i] # "connected" /\ highpass[i] # "connected"
    /\ scriptProcessor[i] # "connected"

\* C1: after disconnect(), a remote close or the unmount teardown has run,
\* status is disconnected and no resource is held: tracks stopped, contexts
\* closed, every created graph node disconnected.  (Read in the code's
\* favour: the status is asked for only while the component is mounted, and
\* a handle that still names a released resource is not counted.)
C1_TeardownReleasesEverything ==
  last.op \in {"disconnect", "onclose", "unmount"}
    => /\ mounted => status = "disconnected"
       /\ NoResourcesHeld

\* C2: at most one microphone stream and at most one capture/playback pair
\* of audio contexts is open at any time.
C2_OneSessionHoldsResources ==
  /\ Cardinality({i \in Calls : inputStream[i] = "live"}) <= 1
  /\ Cardinality({i \in Calls : audioCtx[i] = "running"}) <= 1
  /\ Cardinality({i \in Calls : inputCtx[i] = "running"}) <= 1

\* C3: once a newer connect() has started, a callback of an earlier session
\* releases none of the newer session's stream and contexts and changes
\* neither the status, the playback cursor, the transcript accumulators nor
\* the history.
C3_StaleCallbacksInert ==
  [][ (last'.op \in Callbacks /\ last'.sess < calls)
        => /\ inputStream'[calls] = inputStream[calls]
           /\ audioCtx'[calls] = audioCtx[calls]
           /\ inputCtx'[calls] = inputCtx[calls]
           /\ UNCHANGED <<status, nextStartTimeRef, currentInputRef,
                          currentOutputRef, transcriptHistoryRef>> ]_vars

\* the interruptions logged strictly between positions k and l, or for a
\* message that arrived between the messages of the entries at k and l
InterruptionBetween(k, l) ==
  \E j \in 1..Len(playLog) :
    /\ playLog[j].kind = "interrupted"
    /\ \/ k < j /\ j < l
       \/ l < j /\ j < k
       \/ playLog[k].id <= playLog[j].id /\ playLog[j].id <= playLog[l].id

\* C4: two frames of one session, A arriving before B with no interruption
\* between them: A is scheduled before B, and B starts no earlier than A
\* ends, whichever decode finishes first.
C4_ArrivalOrderNoOverlap ==
  \A k, l \in 1..Len(playLog) :
    ( /\ playLog[k].kind = "frame" /\ playLog[l].kind = "frame"
      /\ playLog[k].sess = playLog[l].sess
      /\ playLog[k].id < playLog[l].id
      /\ ~InterruptionBetween(k, l) )
    => /\ k < l
       /\ playLog[l].start >= playLog[k].start + playLog[k].dur

\* ------------------------------------------------------ playback claims
RECURSIVE SumDur(_, _)
\* the total duration of the first n entries of a log
SumDur(log, n) == IF n = 0 THEN 0 ELSE SumDur(log, n - 1) + log[n].dur

\* the entries a step appends to the log
Appended == SubSeq(playLog', Len(playLog) + 1, Len(playLog'))

\* a step that schedules a frame starts it at max(cursor, clock); the cursor
\* the scheduling leaves is that start plus the duration
FrameStep ==
  (Len(playLog') > Len(playLog) /\ Appended[1].kind = "frame")
    => LET f == Appended[1]
           c == nextStartTimeRef
           t == currentTime[f.sess]
           s == IF c >= t THEN c ELSE t
       IN /\ f.start = s
          /\ f.cursor = s + f.dur
          /\ Len(Appended) = 1 => nextStartTimeRef' = s + f.dur

\* frames handled in order from cursor 0 while the clock stays at 0 start at
\* the running sums of the durations before them
RunningSums ==
  (currentTime[1] = 0 /\ \A k \in 1..Len(playLog) : playLog[k].kind = "frame")
    => /\ \A k \in 1..Len(playLog) :
            playLog[k].start = SumDur(playLog, k - 1)
       /\ playLog # <<>> => nextStartTimeRef = SumDur(playLog, Len(playLog))

\* C5: a frame of duration d scheduled at cursor c and clock t starts at
\* max(c, t) and leaves the cursor at max(c, t) + d; so frames d1..dn handled
\* from cursor 0 with the clock at 0 start at 0, d1, d1+d2, ... and leave the
\* cursor at d1+...+dn.
C5_FrameScheduling == [][FrameStep]_vars /\ []RunningSums

\* durations 1.0, 0.5, 0.2 gave starts 0, 1.0, 1.5 and cursor 1.7
C5_Witness ==
  /\ Len(playLog) = 3
  /\ \A k \in 1..3 : playLog[k].kind = "frame"
  /\ <<playLog[1].dur, playLog[2].dur, playLog[3].dur>> = <<10, 5, 2>>
  /\ <<playLog[1].start, playLog[2].start, playLog[3].start>> = <<0, 10, 15>>
  /\ nextStartTimeRef = 17
  /\ currentTime[1] = 0

\* a step that handles an interruption leaves the cursor at the clock
InterruptionStep ==
  (Len(playLog') > Len(playLog)
     /\ Appended[Len(Appended)].kind = "interrupted")
    => nextStartTimeRef' = currentTime[Appended[Len(Appended)].sess]

\* the frame scheduled next after an interruption, the clock unchanged,
\* starts at the interruption's clock and leaves the cursor d later
FrameAfterInterruption ==
  \A k \in 1..(Len(playLog) - 1) :
    ( /\ playLog[k].kind = "interrupted"
      /\ playLog[k + 1].kind = "frame"
      /\ playLog[k + 1].clock = playLog[k].clock )
    => /\ playLog[k + 1].start = playLog[k].clock
       /\ playLog[k + 1].cursor = playLog[k].clock + playLog[k + 1].dur

\* C6: an interruption sets the cursor to the playback clock, whatever the
\* cursor was; a frame of duration d handled next, the clock unchanged, is
\* scheduled at that time and leaves the cursor at that time + d.
C6_InterruptionResetsCursor ==
  [][InterruptionStep]_vars /\ []FrameAfterInterruption

\* cursor 5.0, interruption at clock 2.0, then a 0.3 frame: start 2.0 and
\* cursor 2.3
C6_Witness ==
  /\ Len(playLog) = 3
  /\ playLog[1].kind = "frame" /\ playLog[1].cursor = 50
  /\ playLog[2].kind = "interrupted" /\ playLog[2].clock = 20
  /\ playLog[3].kind = "frame" /\ playLog[3].dur = 3
  /\ playLog[3].start = 20
  /\ nextStartTimeRef = 23

\* ---------------------------------------------------- transcript claims
\* the items that finalizing user text u and then model text o appends
Finalized(u, o) ==
  (IF u # "" THEN <<[role |-> "user", text |-> u]>> ELSE <<>>)
  \o (IF o # "" THEN <<[role |-> "model", text |-> o]>> ELSE <<>>)

\* the items a step appends to the history, the old items being kept
NewItems ==
  SubSeq(transcriptHistoryRef', Len(transcriptHistoryRef) + 1,
         Len(transcriptHistoryRef'))

KeepsHistory ==
  /\ Len(transcriptHistoryRef') >= Len(transcriptHistoryRef)
  /\ SubSeq(transcriptHistoryRef', 1, Len(transcriptHistoryRef))
       = transcriptHistoryRef

\* a step in which onmessage handled a server message
MessageStep == arrived' = arrived + 1 /\ variant = "extended"

\* C7: an output-transcription delta that arrives while user text is pending
\* appends a user item holding exactly that text and empties the user
\* accumulator; the delta is added to the model accumulator behind it, so no
\* state holds model text of that delta beside unfinalized earlier user text.
C7_UserFlushedBeforeModelDelta ==
  [][ (MessageStep /\ last'.msg.out # NoDelta /\ currentInputRef # "")
        => LET o == currentOutputRef \o last'.msg.out
               flushed == last'.msg.turnComplete
                          \/ (last'.msg.interrupted
                              /\ last'.msg.audio.kind = "none")
           IN /\ KeepsHistory
              /\ NewItems # <<>>
              /\ NewItems[1] = [role |-> "user", text |-> currentInputRef]
              /\ currentInputRef' = ""
              /\ IF flushed
                   THEN /\ NewItems = Finalized(currentInputRef, o)
                        /\ currentOutputRef' = ""
                   ELSE /\ Len(NewItems) = 1
                        /\ currentOutputRef' = o ]_vars

\* pending-user "Bangkok", then an output delta: the user item is in the
\* history and the delta is the pending model text
C7_Witness ==
  /\ last.op = "onmessage" /\ last.msg.out = "Sa"
  /\ transcriptHistoryRef = <<[role |-> "user", text |-> "Bangkok"]>>
  /\ currentInputRef = "" /\ currentOutputRef = "Sa"

RECURSIVE TextOf(_, _)
\* the texts of the items of role r in history h, concatenated
TextOf(h, r) ==
  IF h = <<>> THEN ""
  ELSE (IF Head(h).role = r THEN Head(h).text ELSE "") \o TextOf(Tail(h), r)

\* C8: while the session is connected, for each role the finalized items
\* followed by the pending accumulator spell every delta of that role
\* received so far, in arrival order.
C8_NoDeltaLost ==
  (variant = "extended" /\ status = "connected")
    => /\ TextOf(transcriptHistoryRef, "user") \o currentInputRef = recvInput
       /\ TextOf(transcriptHistoryRef, "model") \o currentOutputRef
            = recvOutput

\* the pending texts when the turn-complete part of the handler runs: the
\* accumulators with the delta of the same message added
PendingUser(m) ==
  IF m.out = NoDelta /\ m.inp # NoDelta THEN currentInputRef \o m.inp
  ELSE currentInputRef
PendingModel(m) ==
  IF m.out # NoDelta THEN currentOutputRef \o m.out ELSE currentOutputRef

\* C9: a turn-complete signal appends one user item for non-empty pending
\* user text and then one model item for non-empty pending model text, none
\* for an empty accumulator, and leaves both accumulators empty.
C9_TurnCompleteFlushesUserThenModel ==
  [][ (MessageStep /\ last'.msg.turnComplete)
        => /\ KeepsHistory
           /\ NewItems = Finalized(PendingUser(last'.msg),
                                   PendingModel(last'.msg))
           /\ currentInputRef' = "" /\ currentOutputRef' = "" ]_vars

\* a turn-complete signal found both accumulators filled: user item first
C9_Witness ==
  /\ last.op = "onmessage" /\ last.msg.turnComplete
  /\ last.msg.out = NoDelta /\ last.msg.inp = NoDelta
  /\ transcriptHistoryRef = <<[role |-> "user", text |-> "Bang"],
                              [role |-> "model", text |-> "Sa"]>>
  /\ currentInputRef = "" /\ currentOutputRef = ""

\* a step that handled an interruption signal: in onmessage when the
\* message carries no audio, after the decode otherwise
SyncInterruption ==
  MessageStep /\ last'.msg.interrupted /\ last'.msg.audio.kind = "none"
DeferredInterruption ==
  /\ variant = "extended" /\ last'.op = "scheduled" /\ last'.msg.interrupted
  /\ Len(playLog') > Len(playLog)

\* C10: an interruption finalizes only the pending model text: one model
\* item when it is non-empty, the model accumulator emptied; the user
\* accumulator is left as it is and the interruption appends no user item.
C10_InterruptionFlushesModelOnly ==
  [][ /\ DeferredInterruption
        => /\ KeepsHistory
           /\ NewItems = Finalized("", currentOutputRef)
           /\ currentOutputRef' = ""
           /\ currentInputRef' = currentInputRef
      /\ (SyncInterruption /\ ~last'.msg.turnComplete
            /\ last'.msg.out = NoDelta)
        => /\ KeepsHistory
           /\ NewItems = Finalized("", currentOutputRef)
           /\ currentOutputRef' = ""
           /\ currentInputRef' = PendingUser(last'.msg)
      /\ SyncInterruption
        => /\ KeepsHistory
           /\ currentOutputRef' = ""
           /\ (\E k \in 1..Len(NewItems) : NewItems[k].role = "user")
                => (last'.msg.turnComplete \/ last'.msg.out # NoDelta) ]_vars

\* an interruption found user and model text pending: the model item was
\* appended and the user text is still pending
C10_Witness ==
  /\ last.op = "onmessage" /\ last.msg.interrupted
  /\ ~last.msg.turnComplete /\ last.msg.out = NoDelta
  /\ last.msg.inp = NoDelta /\ last.msg.audio.kind = "none"
  /\ transcriptHistoryRef = <<[role |-> "model", text |-> "Sa"]>>
  /\ currentInputRef = "Bang" /\ currentOutputRef = ""


\* ------------------------------------------------------- lifecycle claims
\* C11: in the extended variant the finalized history is append-only: over
\* every step that is not the start of a new connect() -- a server message
\* with its turn-complete signal or interruption, End Call, a remote close
\* or error, the unmount, a plan-note request or its completion -- the
\* history before the step is a prefix of the history after it.
C11_HistoryAppendOnly ==
  [][ (variant = "extended" /\ last'.op # "connect") => KeepsHistory ]_vars

\* a plan note was stored for an ended call whose history has two items
C11_Witness ==
  /\ variant = "extended"
  /\ last.op = "summaryStored"
  /\ Len(transcriptHistoryRef) = 2

\* C12: when getUserMedia rejects, connect() ends with status error and the
\* two audio contexts that invocation had opened are closed and no longer
\* held by audioContextRef / inputAudioContextRef.
C12_MicDeniedReleasesContexts ==
  last.op = "micDenied"
    => /\ status = "error"
       /\ audioCtx[last.sess] # "running"
       /\ inputCtx[last.sess] # "running"
       /\ audioContextRef # last.sess
       /\ inputAudioContextRef # last.sess

\* C13: a teardown that ran while connect() invocation i was in progress
\* (its contexts are closed although its session has not yet confirmed the
\* open): when the rest of that connect() and its open callback have run,
\* none of its stream, contexts and graph nodes is open, and the status of
\* the mounted component is not connected.
C13_TeardownMidConnectSafe ==
  [][ \A i \in Calls :
        ( /\ audioCtx[i] = "closed"
          /\ session[i] = "opening" /\ session'[i] = "open" )
        => /\ mounted => status' # "connected"
           /\ inputStream'[i] # "live"
           /\ audioCtx'[i] # "running" /\ inputCtx'[i] # "running"
           /\ source'[i] # "connected" /\ highpass'[i] # "connected"
           /\ scriptProcessor'[i] # "connected" ]_vars

\* disconnect() has run since the latest connect() completed, and no
\* connect() has started since: the handles that connect() had set are
\* cleared again and its session had been confirmed open
AfterTeardown ==
  /\ calls > 0
  /\ pc[calls] = "done" /\ session[calls] \in {"open", "failed", "closed"}
  /\ audioContextRef = NoRef

\* C14: after disconnect() or a remote close/error teardown, and until the
\* next connect(), no inbound frame is decoded or scheduled, the playback
\* cursor does not change and neither the transcript accumulators nor the
\* history change.
C14_TeardownCascades ==
  [][ (AfterTeardown /\ last'.op # "connect")
        => UNCHANGED <<decoding, playLog, nextStartTimeRef, currentInputRef,
                       currentOutputRef, transcriptHistoryRef>> ]_vars

\* connect() invocation i belongs to a valid sequence: the component is
\* mounted, i is the latest invocation and every earlier one has ended and
\* holds nothing
ValidConnect(i) ==
  /\ mounted /\ i = calls
  /\ \A j \in 1..(i - 1) :
       /\ pc[j] # "awaitMic" /\ session[j] # "opening"
       /\ inputStream[j] # "live"
       /\ audioCtx[j] # "running" /\ inputCtx[j] # "running"

\* C15: when a connect() of a valid sequence has succeeded (its session
\* confirmed the open), status is connected and exactly one session's
\* resources are held: its microphone stream, its capture context and its
\* playback context.
C15_ConnectedHoldsOneSession ==
  [][ \A i \in Calls :
        ( /\ ValidConnect(i)
          /\ session[i] = "opening" /\ session'[i] = "open" )
        => /\ status' = "connected"
           /\ {j \in Calls : inputStream'[j] = "live"} = {i}
           /\ {j \in Calls : inputCtx'[j] = "running"} = {i}
           /\ {j \in Calls : audioCtx'[j] = "running"} = {i} ]_vars

\* the handlers that call disconnect(): End Call, onclose, onerror and, in
\* the basic variant, the unmount cleanup
CallsDisconnect(op) ==
  \/ op \in {"disconnect", "onclose", "onerror"}
  \/ op = "unmount" /\ variant = "basic"

\* the state of the component, the resources it created and the release
\* calls made on them
componentVars ==
  <<uiVars, refVars, resVars, txVars, summaryMessage, nextStartTimeRef,
    sessionRef, releases>>

\* C16: disconnect() is idempotent: a call that directly follows another
\* call of disconnect(), and a call made when connect() was never invoked,
\* releases nothing and leaves the state of the component as it was.
C16_DisconnectIdempotent ==
  [][ ( /\ CallsDisconnect(last'.op)
        /\ calls = 0 \/ CallsDisconnect(last.op) )
        => UNCHANGED componentVars ]_vars

\* the basic component was unmounted, which calls disconnect(), after the
\* session it had opened was closed remotely, which called it before
C16_Witness ==
  /\ variant = "basic"
  /\ last.op = "unmount"
  /\ session[1] = "closed" /\ source[1] = "disconnected"
  /\ releases[1] = [stop |-> 1, closeOut |-> 1, closeIn |-> 1]

\* C17: when the error callback of a session has been handled, the teardown
\* of disconnect() has run on whatever the refs held and the status of the
\* mounted component is error.
C17_RemoteErrorSurfaced ==
  (last.op = "onerror" /\ mounted)
    => /\ streamRef = NoRef /\ audioContextRef = NoRef
       /\ inputAudioContextRef = NoRef
       /\ status = "error"

\* the handler run h ended by an exception that nothing catches: atob or
\* decodeAudioData threw inside the async onmessage, which has no try/catch
Rejected(h) ==
  \/ h.op = "onmessage" /\ h.msg.audio.kind = "bad64"
  \/ h.op = "decodeFailed"

\* a step in which a handler met an audio payload it could not decode
MalformedStep ==
  \/ arrived' = arrived + 1 /\ last'.msg.audio.kind = "bad64"
  \/ decoding' # decoding /\ last'.op = "decodeFailed"

\* C18: a malformed or undecodable audio payload does not make the message
\* handler fail with an uncaught error; nothing is scheduled for it and the
\* status is unchanged, and so is the cursor unless the same message
\* carries an interruption.
C18_MalformedAudioDropped ==
  [][ MalformedStep
        => /\ ~Rejected(last')
           /\ UNCHANGED <<playLog, status>>
           /\ ~last'.msg.interrupted => UNCHANGED nextStartTimeRef ]_vars

\* no audio context was created, no microphone stream obtained and no
\* remote session requested
NothingAcquired ==
  \A i \in Calls :
    /\ audioCtx[i] = "none" /\ inputCtx[i] = "none"
    /\ inputStream[i] = "none" /\ session[i] = "none"
    /\ pc[i] \in {"none", "failed"}

\* C19: with no credential configured, connect() fails at once: the step
\* that invokes it ends it with status error and acquires nothing, and no
\* context, stream or session ever exists.
C19_NoCredentialFailsFast ==
  /\ [][ (~apiKey /\ calls' = calls + 1)
           => /\ status' = "error"
              /\ pc'[calls'] = "failed"
              /\ UNCHANGED <<refVars, resVars, session, sessionRef>> ]_vars
  /\ [](~apiKey => NothingAcquired)

\* connect() was invoked without a credential and has failed
C19_Witness ==
  /\ ~apiKey
  /\ last.op = "connect" /\ pc[1] = "failed"
  /\ status = "error"

\* the transitions of the status that the state machine allows; the
\* finalizing status is 'summarizing' in the code
StatusEdges ==
  { <<"disconnected", "connecting">>, <<"connecting", "connected">>,
    <<"connected", "disconnected">>, <<"connected", "error">>,
    <<"error", "disconnected">> }
  \cup (IF variant = "extended"
          THEN { <<"disconnected", "summarizing">>,
                 <<"summarizing", "disconnected">> }
          ELSE {})

\* C20: every change of the status is one of the transitions of StatusEdges.
C20_StatusEdgesOnly ==
  [][ status' # status => <<status, status'>> \in StatusEdges ]_vars

\* ------------------------------------------------------ plan-note claims
\* a step in which a pending summary request completed
SummaryCompletes == summaryPending' = summaryPending - 1

\* C21: in the extended variant the summarizing status is entered only from
\* disconnected and is followed only by disconnected, and the completion of
\* a summary leaves the status of a connecting or connected session alone.
C21_SummarizingOnlyAtRest ==
  [][ variant = "extended"
        => /\ (status' = "summarizing" /\ status # "summarizing")
                => status = "disconnected"
           /\ (status = "summarizing" /\ status' # "summarizing")
                => status' = "disconnected"
           /\ (SummaryCompletes /\ status \in {"connecting", "connected"})
                => status' = status ]_vars


\* C22: the step that unmounts the component leaves no device track live
\* and no audio context running, whether or not disconnect() was called
\* before, in both variants.
C22_UnmountReleasesStreamAndContexts ==
  [][ (mounted /\ ~mounted')
        => \A i \in Calls :
             /\ inputStream'[i] # "live"
             /\ audioCtx'[i] # "running" /\ inputCtx'[i] # "running" ]_vars


\* --------------------------------------------------------- capture claims
\* C23: the frames of a session are handed to sendRealtimeInput in the
\* order in which their blocks were captured, whether a block was captured
\* before or after the session promise resolved.
C23_SentInCaptureOrder ==
  \A k, l \in 1..Len(sent) :
    (k < l /\ sent[k].frame.sess = sent[l].frame.sess)
      => sent[k].frame.id < sent[l].frame.id

\* two frames were sent, the first captured before the session promise
\* resolved and the second after
C23_Witness ==
  /\ Len(sent) = 2
  /\ sent[1].frame.early /\ ~sent[2].frame.early


\* a step in which session.sendRealtimeInput threw
SendFails == Len(sent') = Len(sent) + 1 /\ ~sent'[Len(sent')].ok

\* the capture numbers of the frames in a sequence of frames
FrameIds(frames) == {frames[k].id : k \in 1..Len(frames)}

\* C24: a send that fails leaves the status, the capture graph and the
\* frames still waiting as they are and only drops its own frame; no frame
\* is handed to the session twice, and every captured block is either
\* waiting for the session or has been handed to it.
C24_SendFailureIsLocal ==
  /\ [][ SendFails
           => LET i == sent'[Len(sent')].frame.sess IN
                /\ UNCHANGED <<status, isConnected, resVars, blocks>>
                /\ outbox'[i] = Tail(outbox[i]) ]_vars
  /\ [](\A k, l \in 1..Len(sent) :
          k # l => sent[k].frame.id # sent[l].frame.id)
  /\ [](FrameIds(outbox[1]) \cup {sent[k].frame.id : k \in 1..Len(sent)}
          = 1..blocks)

\* the first frame failed to be sent and the frame of the next block was
\* sent after it
C24_Witness ==
  /\ last.op = "sent"
  /\ Len(sent) = 2
  /\ ~sent[1].ok /\ sent[2].ok
  /\ sent[1].frame.id = 1 /\ sent[2].frame.id = 2


\* the 16-bit value the spec's table of the quantization gives for a sample
\* within [-1, 1] that is a multiple of one half
TableValue(n) ==
  CASE n = -2 -> -32768
    [] n = -1 -> -16384
    [] n = 0 -> 0
    [] n = 1 -> 16383
    [] n = 2 -> 32767

\* every frame made from captured blocks: waiting or handed to the session
Frames ==
  {outbox[1][k] : k \in 1..Len(outbox[1])}
    \cup {sent[k].frame : k \in 1..Len(sent)}

\* C25: every sample of every frame is quantized as the table says: -1.0,
\* -0.5, 0.0, 0.5, 1.0 give -32768, -16384, 0, 16383, 32767, a sample above
\* 1.0 gives what 1.0 gives and a sample below -1.0 what -1.0 gives, so
\* every output lies in [-32768, 32767].
C25_PcmQuantization ==
  \A f \in Frames : \A k \in DOMAIN f.block :
    /\ f.pcm16[k] = TableValue(IF f.block[k] > 2 THEN 2
                               ELSE IF f.block[k] < -2 THEN -2
                               ELSE f.block[k])
    /\ f.pcm16[k] \in -32768..32767

\* two blocks were converted: one of a sample at -1.0, one of a sample at
\* 0.5 followed by a sample below -1.0
C25_Witness ==
  /\ Len(outbox[1]) = 2
  /\ outbox[1][1].block = <<-2>> /\ outbox[1][1].pcm16 = <<-32768>>
  /\ outbox[1][2].block = <<1, -MaxSample>>
  /\ outbox[1][2].pcm16 = <<16383, -32768>>


\* C26: the volume is within [0, 1] in every reachable state, whatever the
\* amplitude of the captured blocks, and it is 0 right after disconnect().
C26_VolumeInUnitRange ==
  /\ 0 <= volume /\ volume <= VolumeOne
  /\ (CallsDisconnect(last.op) => volume = 0)

\* a block whose sample lies outside [-1, 1] has just been measured: its
\* loudness is above 1 and the volume shown is exactly 1
C26_Witness ==
  /\ last.op = "onaudioprocess" /\ Len(outbox[1]) > 0
  /\ LET f == outbox[1][Len(outbox[1])] IN
       /\ \E k \in DOMAIN f.block : f.block[k] > SampleUnit
       /\ lastVolumeUpdate[1] = now
       /\ Loudness(f.block) > VolumeOne
       /\ volume = VolumeOne

\* the volume has been raised by a block and End Call has put it back to 0
C26_WitnessReset ==
  /\ last.op = "disconnect" /\ Len(outbox[1]) > 0 /\ volume = 0
  /\ \E k \in 1..Len(outbox[1]) : Loudness(outbox[1][k].block) > 0


\* C27: handleCreateSticky() with an empty finalized history changes
\* nothing: no summary is requested, no note is stored, and the status, the
\* banner and every other variable of the component keep their values.
C27_EmptyHistoryNoOp ==
  [][ last'.op = "handleCreateSticky" /\ Len(transcriptHistoryRef) = 0
        => /\ summaryPending' = summaryPending
           /\ stickies' = stickies
           /\ status' = status
           /\ UNCHANGED <<envVars, mounted, uiVars, txVars, summaryMessage,
                          refVars, nextStartTimeRef, sessionRef, calls, pc,
                          resVars, session, currentTime, decoding, playLog,
                          arrived, recvInput, recvOutput, noteVars, releases,
                          teardown, captureVars>> ]_vars

\* the handler has run with an empty history, and nothing is pending
C27_Witness ==
  /\ last.op = "handleCreateSticky" /\ Len(transcriptHistoryRef) = 0
  /\ variant = "extended" /\ summaryPending = 0 /\ status = "disconnected"


\* ------------------------------------------------------ connection flag
\* C28: while the component is mounted, isConnected is true exactly when
\* the status is connected, in every reachable state.
C28_FlagMatchesStatus ==
  mounted => (isConnected <=> status = "connected")


\* ------------------------------------------------------ cursor claims
\* C29 as stated: no step leaves the playback cursor smaller than it was.
C29_CursorMonotonic ==
  [][nextStartTimeRef' >= nextStartTimeRef]_vars

\* C29 amended: within one session no step other than the handling of an
\* interruption leaves the cursor smaller than it was, and a step that
\* lowers it leaves it at the playback clock of that session.
C29_CursorLoweredOnlyByInterruption ==
  [][ nextStartTimeRef' < nextStartTimeRef
        => /\ Len(playLog') > Len(playLog)
           /\ Appended[Len(Appended)].kind = "interrupted"
           /\ nextStartTimeRef' = currentTime[Appended[Len(Appended)].sess]
    ]_vars

\* a frame left the cursor ahead of the clock and the interruption handled
\* next has pulled it back to the clock
C29_Witness ==
  /\ Len(playLog) = 2
  /\ playLog[1].kind = "frame" /\ playLog[2].kind = "interrupted"
  /\ playLog[2].clock > 0
  /\ playLog[2].clock < playLog[1].cursor
  /\ nextStartTimeRef = playLog[2].clock


\* ------------------------------------------------------ opposing-role claim
\* C30: in the extended variant a delta of one role finalizes the pending
\* text of the other role, in both directions: an input delta handled while
\* model text is pending appends that text to the history as a model item
\* and empties the model accumulator, and after any server message at most
\* one of the two accumulators is non-empty.
C30_OpposingRoleFinalizes ==
  /\ [][ (MessageStep /\ variant = "extended" /\ last'.msg.inp # NoDelta
            /\ last'.msg.out = NoDelta /\ currentOutputRef # "")
           => /\ NewItems # <<>>
              /\ NewItems[1] = [role |-> "model", text |-> currentOutputRef]
       ]_vars
  /\ [](variant = "extended"
          => ~(currentInputRef # "" /\ currentOutputRef # ""))


\* ------------------------------------------------------ release claims
\* no track.stop() and no ctx.close() is called twice on the same resource
ReleasedAtMostOnce ==
  \A i \in Calls :
    releases[i].stop <= 1 /\ releases[i].closeOut <= 1
      /\ releases[i].closeIn <= 1

\* a ref holds a resource exactly while that resource is open
HandleIffOpen ==
  \A i \in Calls :
    /\ (streamRef = i) <=> (inputStream[i] = "live")
    /\ (audioContextRef = i) <=> (audioCtx[i] = "running")
    /\ (inputAudioContextRef = i) <=> (inputCtx[i] = "running")

\* C31: across disconnect(), remote close, remote error and unmount no
\* audio context is closed more than once, no device track is stopped more
\* than once, and a resource handle is non-null exactly while its resource
\* is open.
C31_ReleasedExactlyOnce == ReleasedAtMostOnce /\ HandleIffOpen


\* the place of a release call in the order the claim gives
Rank(c) ==
  CASE c.call = "stop" -> 1
    [] c.call = "disconnect" -> 2
    [] c.call = "close" -> 3

\* the release calls of the latest teardown were made tracks first, then
\* graph nodes, then contexts
CallsInOrder ==
  \A k, l \in 1..Len(teardown) :
    k < l => Rank(teardown[k]) <= Rank(teardown[l])

\* C32: within disconnect() every track.stop() call is made before any
\* node.disconnect() call, and every node.disconnect() call before either
\* context's close() call.
C32_ReleaseOrder == CallsInOrder

\* End Call on an open session: the stream is stopped, the processor and the
\* source are disconnected, then the playback and the capture context are
\* closed
C32_Witness ==
  /\ last.op = "disconnect"
  /\ Len(teardown) = 5
  /\ [k \in 1..5 |-> teardown[k].call]
       = <<"stop", "disconnect", "disconnect", "close", "close">>
  /\ \A k \in 1..5 : teardown[k].res = 1

\* ------------------------------------------------------ end-of-call claims
\* C33: in the extended variant disconnect() empties both pending
\* accumulators and their displayed views, appends nothing to the history
\* and leaves the history and the displayed list as they were; no step other
\* than connect() removes an item, so the history of the ended call is there
\* for the summary until the next connect().
C33_DisconnectDropsPending ==
  /\ [][ (CallsDisconnect(last'.op) /\ variant = "extended")
           => /\ currentInputRef' = "" /\ currentOutputRef' = ""
              /\ currentInput' = "" /\ currentOutput' = ""
              /\ transcriptHistoryRef' = transcriptHistoryRef
              /\ transcripts' = transcripts ]_vars
  /\ [][ last'.op # "connect" => KeepsHistory ]_vars

\* End Call while the model text "Sa" was pending behind the finalized user
\* item "Bang": the pending text is gone and the history holds the one item
C33_Witness ==
  /\ variant = "extended" /\ last.op = "disconnect"
  /\ recvOutput = "Sa" /\ currentOutputRef = "" /\ currentOutput = ""
  /\ transcriptHistoryRef = <<[role |-> "user", text |-> "Bang"]>>

\* the plan note was then requested from that history
C33_WitnessSummary ==
  /\ last.op = "handleCreateSticky" /\ summaryPending = 1
  /\ recvOutput = "Sa"
  /\ transcriptHistoryRef = <<[role |-> "user", text |-> "Bang"]>>


\* ------------------------------------------------------ interruption claim
\* a step that completes the handling of a server message carrying an
\* interruption signal: the handler of a message without audio ran, or the
\* decode of the message's audio settled
CompletesInterrupted ==
  /\ last'.msg # NoMsg /\ last'.msg.interrupted
  /\ \/ last'.op = "onmessage" /\ last'.msg.audio.kind = "none"
     \/ last'.op \in {"scheduled", "decodeFailed"}

\* C34: every server message that carries an interruption signal has it
\* handled - the cursor is left at the playback clock and, in the extended
\* variant, the pending model text is finalized - also when the audio payload
\* of the same message fails to decode.
C34_InterruptionAlwaysHandled ==
  [][ CompletesInterrupted
        => /\ nextStartTimeRef' = currentTime[last'.sess]
           /\ variant = "extended" => currentOutputRef' = "" ]_vars


\* ------------------------------------------------------ projection claim
\* C35: in the extended variant the displayed transcript list equals the
\* finalized history and the displayed pending user and model texts equal
\* the two pending accumulators, in every reachable state.
C35_ViewIsProjection ==
  variant = "extended"
    => /\ transcripts = transcriptHistoryRef
       /\ currentInput = currentInputRef
       /\ currentOutput = currentOutputRef


\* ------------------------------------------------------ summary failure
\* a step in which a summary request ends in failure: the remote call
\* failed, or storing the note threw
SummaryFails ==
  /\ SummaryCompletes
  /\ \/ last'.op = "summaryFailed"
     \/ last'.op = "summaryStored"
          /\ stickyText' = "Call summary unavailable."

\* C36: in the extended variant a failed summarization is recovered locally:
\* the request ends, the status is back at disconnected, and the page shows
\* a message that reports the failure.
C36_SummaryFailureReported ==
  [][ SummaryFails
        => /\ status' = "disconnected"
           /\ summaryMessage' # NoSummary
           /\ summaryMessage' # "Note added to Plan!" ]_vars


\* ------------------------------------------------------ throttle claim
\* a step in which a capture block was processed
BlockProcessed == blocks' = blocks + 1

\* C37: every processed capture block adds exactly one frame to the frames
\* of its session, made from that block, whether or not the block updated
\* the volume; the volume and its stamp change exactly when more than the
\* throttle interval has passed since the last update.
C37_ThrottleOnlyGatesVolume ==
  [][ BlockProcessed
        => LET i == last'.sess
               due == now - lastVolumeUpdate[i] > Throttle
           IN /\ Len(outbox'[i]) = Len(outbox[i]) + 1
              /\ SubSeq(outbox'[i], 1, Len(outbox[i])) = outbox[i]
              /\ outbox'[i][Len(outbox'[i])].id = blocks'
              /\ sent' = sent
              /\ IF due
                   THEN lastVolumeUpdate'[i] = now
                        /\ volume' = Volume(outbox'[i][Len(outbox'[i])].block)
                   ELSE UNCHANGED <<volume, lastVolumeUpdate>> ]_vars

\* two blocks were processed within the throttle interval: the loud second
\* one left the volume of the silent first one in place and still produced
\* its frame
C37_Witness ==
  /\ last.op = "onaudioprocess" /\ blocks = 2 /\ Len(outbox[1]) = 2
  /\ now - lastVolumeUpdate[1] <= Throttle
  /\ outbox[1][1].block = <<0>> /\ volume = 0
  /\ Volume(outbox[1][2].block) = VolumeOne


\* ------------------------------------------------------ item claim
\* C38: in the extended variant every item of the finalized history, and of
\* the displayed list, has non-empty text, whatever deltas, turn-complete
\* signals and interruptions were received.
C38_NoEmptyItem ==
  variant = "extended"
    => /\ \A k \in 1..Len(transcriptHistoryRef) :
            transcriptHistoryRef[k].text # ""
       /\ \A k \in 1..Len(transcripts) : transcripts[k].text # ""

\* after a user and a model item were finalized, a message with an empty
\* output delta and a turn-complete signal was handled and appended nothing
C38_Witness ==
  /\ variant = "extended"
  /\ last.op = "onmessage" /\ last.msg.out = "" /\ last.msg.turnComplete
  /\ arrived = 3
  /\ transcriptHistoryRef = <<[role |-> "user", text |-> "Bang"],
                              [role |-> "model", text |-> "Sa"]>>
  /\ currentInputRef = "" /\ currentOutputRef = ""

=============================================================================
